---- MODULE Spec2Model ----
(***************************************************************************)
(* pinform: typed measurement schemas (fields, tags), records validated    *)
(* through descriptors, and the InfluxQL query strings built by            *)
(* InfluxClient.                                                           *)
(*                                                                         *)
(* A Python str is modelled as a sequence of one-character strings, so     *)
(* that scanning, slicing, joining and parsing are computed and not        *)
(* assumed.  A Python value is a record [ty, v]: ty is the runtime type,   *)
(* v the payload (an Int for int and bool, twice the value for float, a    *)
(* character sequence for str).                                            *)
(***************************************************************************)
EXTENDS Integers, Sequences, FiniteSets, TLC

VARIABLES cls,   \* the declared Measurement subclass (the Schema), if any
          inst,  \* the Record under observation, if any
          ret    \* outcome of the last call: its arguments, exception, value

vars == <<cls, inst, ret>>

-----------------------------------------------------------------------------
(* Python values *)

None == [ty |-> "NoneType", v |-> 0]
PyInt(n) == [ty |-> "int", v |-> n]
PyBool(b) == [ty |-> "bool", v |-> IF b THEN 1 ELSE 0]
PyFloat(twice) == [ty |-> "float", v |-> twice]
PyStr(s) == [ty |-> "str", v |-> s]

\* isinstance(value, t): bool is a subclass of int
IsInstance(value, t) ==
    \/ value.ty = t
    \/ t = "int" /\ value.ty = "bool"

IsNumber(value) == value.ty \in {"int", "bool", "float"}

\* the number a numeric value stands for, doubled (floats carry halves)
Twice(value) == IF value.ty = "float" THEN value.v ELSE 2 * value.v

\* Python ==, as used by `in` and by set(): numbers compare by value
\* across int, bool and float; everything else by type and payload
PyEq(a, b) ==
    IF IsNumber(a) /\ IsNumber(b) THEN Twice(a) = Twice(b)
    ELSE a.ty = b.ty /\ a.v = b.v

IsNone(value) == value.ty = "NoneType"

\* the outcome of a call: the exception raised ("none" if it returned)
\* and the value returned
Ok(value) == [exc |-> "none", value |-> value]
Raise(exception) == [exc |-> exception, value |-> None]

-----------------------------------------------------------------------------
(* str helpers *)

RECURSIVE Join(_, _)
\* sep.join(parts)
Join(sep, parts) ==
    IF parts = <<>> THEN <<>>
    ELSE IF Len(parts) = 1 THEN parts[1]
    ELSE parts[1] \o sep \o Join(sep, Tail(parts))

Digit(d) == <<"0", "1", "2", "3", "4", "5", "6", "7", "8", "9">>[d + 1]

RECURSIVE NatStr(_)
NatStr(n) == IF n < 10 THEN <<Digit(n)>> ELSE NatStr(n \div 10) \o <<Digit(n % 10)>>

\* str(n) for an int n
IntStr(n) == IF n < 0 THEN <<"-">> \o NatStr(0 - n) ELSE NatStr(n)

DigitChars == {"0", "1", "2", "3", "4", "5", "6", "7", "8", "9"}

DigitValue(c) == CHOOSE d \in 0..9 : Digit(d) = c

LowerChars == {"a", "b", "c", "d", "h", "m", "p", "q", "r", "s", "t", "u", "x", "y", "z"}
UpperChars == {"C", "M", "P", "U"}

\* x.lower() on one character
Lower(c) ==
    CASE c = "C" -> "c" [] c = "M" -> "m" [] c = "P" -> "p" [] c = "U" -> "u"
      [] OTHER -> c

\* x.upper() on one character
Upper(c) ==
    CASE c = "c" -> "C" [] c = "m" -> "M" [] c = "p" -> "P" [] c = "u" -> "U"
      [] OTHER -> c

RECURSIVE UnderlineEach(_)
UnderlineEach(s) ==
    IF s = <<>> THEN <<>>
    ELSE (IF Head(s) \in LowerChars THEN <<Head(s)>> ELSE <<"_", Lower(Head(s))>>)
         \o UnderlineEach(Tail(s))

\* utils.dromedary_to_underline
dromedary_to_underline(s) ==
    IF s[1] \in LowerChars THEN UnderlineEach(s) ELSE Tail(UnderlineEach(s))

RECURSIVE UnderlineToDromedaryFrom(_, _)
\* the loop of underline_to_dromedary: an underscore sets the flag and is
\* dropped, an alphanumeric character after one is made upper case
UnderlineToDromedaryFrom(s, underline) ==
    IF s = <<>> THEN <<>>
    ELSE IF Head(s) = "_" THEN UnderlineToDromedaryFrom(Tail(s), TRUE)
    ELSE IF underline THEN <<Upper(Head(s))>> \o UnderlineToDromedaryFrom(Tail(s), FALSE)
    ELSE <<Lower(Head(s))>> \o UnderlineToDromedaryFrom(Tail(s), FALSE)

\* utils.underline_to_dromedary
underline_to_dromedary(s) == UnderlineToDromedaryFrom(s, FALSE)

\* MeasurementUtils.field_to_dataframe_column_name
field_to_dataframe_column_name(field_name) == underline_to_dromedary(field_name)

\* MeasurementUtils.dataframe_column_to_field_name: dromedary_to_underline
\* indexes s[0], which an empty string does not have
dataframe_column_to_field_name(column_name) ==
    IF column_name = <<>> THEN [exc |-> "IndexError", value |-> <<>>]
    ELSE [exc |-> "none", value |-> dromedary_to_underline(column_name)]

-----------------------------------------------------------------------------
(* fields/__init__.py and tags/__init__.py: the descriptors *)

NoName == <<>>   \* name=None: the name is inferred from the attribute identifier

\* Field.__init__ / Tag.__init__: the descriptor object
Descriptor(kind, class, field_type, name, null, options) ==
    [kind |-> kind, class |-> class, field_type |-> field_type,
     name |-> name, null |-> null, options |-> options]

\* the Python type a typed field class tests its values and options against
ValueTypeOf(class) ==
    CASE class \in {"IntegerField", "MultipleChoiceIntegerField", "EnumIntegerField"} -> "int"
      [] class = "FloatField" -> "float"
      [] class = "BooleanField" -> "bool"
      [] OTHER -> "str"

FieldTypeOf(class) ==
    CASE ValueTypeOf(class) = "int" -> "INTEGER"
      [] ValueTypeOf(class) = "float" -> "FLOAT"
      [] ValueTypeOf(class) = "bool" -> "BOOLEAN"
      [] OTHER -> "STRING"

RECURSIVE PySetOf(_)
\* set(items), as the sequence of the members kept: the first of each
\* group of equal (==) items
PySetOf(items) ==
    IF items = <<>> THEN <<>>
    ELSE LET front == PySetOf(SubSeq(items, 1, Len(items) - 1))
             last == items[Len(items)]
         IN IF \E i \in DOMAIN front : PyEq(front[i], last)
            THEN front ELSE Append(front, last)

Range(seq) == {seq[i] : i \in DOMAIN seq}

\* the option checks shared by the four constrained field classes, from
\* the emptiness test on: empty, duplicates, member types
OptionsChecks(class, options) ==
    IF Len(options) = 0 THEN Raise("Exception")
    ELSE IF Len(options) # Len(PySetOf(options)) THEN Raise("Exception")
    ELSE IF \E i \in DOMAIN options : ~IsInstance(options[i], ValueTypeOf(class))
         THEN Raise("Exception")
    ELSE Ok(Range(PySetOf(options)))

\* MultipleChoiceStringField.__init__ / MultipleChoiceIntegerField.__init__
\* on the argument `options`: a Python object [py, items]
MultipleChoiceInit(class, options) ==
    IF options.py = "NoneType" THEN Raise("Exception")
    ELSE IF options.py \notin {"list", "set"} THEN Raise("Exception")
    ELSE OptionsChecks(class, options.items)

\* EnumStringField.__init__ / EnumIntegerField.__init__ on the argument
\* `enum`.  Iterating an Enum class yields its members without aliases:
\* a member whose value equals an earlier member's is an alias of it.
EnumInit(class, enum) ==
    IF enum.py = "NoneType" THEN Raise("Exception")
    ELSE IF enum.py \notin {"type", "EnumMeta"} THEN Raise("TypeError")
    ELSE IF enum.py # "EnumMeta" THEN Raise("Exception")
    ELSE OptionsChecks(class, PySetOf(enum.items))

\* calling a descriptor class: FieldClass(<domain>, name=name, null=null);
\* the first argument of the base class Field is its field_type
NewDescriptor(class, domain, name, null) ==
    CASE class = "Tag" -> Ok(Descriptor("Tag", class, "STRING", name, null, {}))
      [] class \in {"MultipleChoiceStringField", "MultipleChoiceIntegerField"} ->
            LET checked == MultipleChoiceInit(class, domain)
            IN IF checked.exc # "none" THEN checked
               ELSE Ok(Descriptor("Field", class, FieldTypeOf(class), name, null, checked.value))
      [] class \in {"EnumStringField", "EnumIntegerField"} ->
            LET checked == EnumInit(class, domain)
            IN IF checked.exc # "none" THEN checked
               ELSE Ok(Descriptor("Field", class, FieldTypeOf(class), name, null, checked.value))
      [] class = "Field" -> Ok(Descriptor("Field", class, domain, name, null, {}))
      [] OTHER -> Ok(Descriptor("Field", class, FieldTypeOf(class), name, null, {}))

ConstrainedClasses ==
    {"MultipleChoiceStringField", "MultipleChoiceIntegerField",
     "EnumStringField", "EnumIntegerField"}

\* Field.__set__ without its null check
Field__set__NoNullCheck(desc, value) == "none"

\* Field.__set__: the null check of the base class; "none" when the value
\* is stored
Field__set__(desc, value) ==
    IF ~desc.null /\ IsNone(value) THEN "AssertionError" ELSE "none"

\* Tag.__set__: the null check only
Tag__set__(desc, value) ==
    IF ~desc.null /\ IsNone(value) THEN "AssertionError" ELSE "none"

\* `value in self.options`
InOptions(value, options) == \E o \in options : PyEq(value, o)

\* the __set__ of the descriptor's class: the exception it raises, "none"
\* when it stores the value
Descriptor__set__(desc, value) ==
    IF desc.kind = "Tag" THEN Tag__set__(desc, value)
    ELSE IF desc.class = "Field" THEN Field__set__(desc, value)
    ELSE IF ~IsNone(value) /\ ~IsInstance(value, ValueTypeOf(desc.class)) THEN "TypeError"
    ELSE IF /\ desc.class \in ConstrainedClasses
            /\ ~IsNone(value)
            /\ ~InOptions(value, desc.options) THEN "ValueError"
    ELSE Field__set__(desc, value)

-----------------------------------------------------------------------------
(* __init__.py: MeasurementMeta and Measurement *)

NoClass == [exists |-> FALSE, measurement_name |-> <<>>, dict |-> <<>>]
EmptyDict == [k \in {} |-> None]
NoInst == [exists |-> FALSE, data |-> EmptyDict, time_point |-> 0]

\* d[key] = value on a Python dict
DictPut(d, key, value) ==
    [k \in DOMAIN d \cup {key} |-> IF k = key THEN value ELSE d[k]]

\* setattr(new_class, key, desc): the class __dict__ as the sequence of its
\* descriptor entries; an existing key keeps its place and gets the new value
ClassSetAttr(dict, key, desc) ==
    IF \E i \in DOMAIN dict : dict[i].key = key
    THEN [i \in DOMAIN dict |-> IF dict[i].key = key THEN [key |-> key, desc |-> desc] ELSE dict[i]]
    ELSE Append(dict, [key |-> key, desc |-> desc])

RECURSIVE RegisterAttrs(_, _)
\* the loop over attrs.items(): an unnamed descriptor takes the name of
\* its attribute, and is set on the class under its name
RegisterAttrs(dict, attrs) ==
    IF attrs = <<>> THEN dict
    ELSE LET field == IF attrs[1].desc.name = NoName
                      THEN [attrs[1].desc EXCEPT !.name = attrs[1].id]
                      ELSE attrs[1].desc
         IN RegisterAttrs(ClassSetAttr(dict, field.name, field), Tail(attrs))

\* MeasurementMeta.__new__: meta_name is Meta.measurement_name (NoName
\* when there is none), attrs the descriptors of the class body
MeasurementMeta__new__(name, meta_name, attrs) ==
    [exists |-> TRUE,
     measurement_name |-> IF meta_name = NoName THEN dromedary_to_underline(name)
                          ELSE meta_name,
     dict |-> RegisterAttrs(<<>>, attrs)]

RECURSIVE EvalBody(_, _)
\* the class body: each statement `id = Class(domain, name=, null=)` in
\* turn; the first constructor that raises ends the class statement
EvalBody(body, done) ==
    IF body = <<>> THEN Ok(done)
    ELSE LET made == NewDescriptor(body[1].class, body[1].domain, body[1].name, body[1].null)
         IN IF made.exc # "none" THEN made
            ELSE EvalBody(Tail(body), Append(done, [id |-> body[1].id, desc |-> made.value]))

\* the statement `class <name>(Measurement): <body>`
ClassStatement(name, meta_name, body) ==
    LET attrs == EvalBody(body, <<>>)
    IN IF attrs.exc # "none" THEN attrs
       ELSE Ok(MeasurementMeta__new__(name, meta_name, attrs.value))

SelectSeq2(seq, kind) == SelectSeq(seq, LAMBDA e : e.desc.kind = kind)

\* Measurement.get_fields: the Field descriptors of the class, by name,
\* in class __dict__ order
get_fields(c) == SelectSeq2(c.dict, "Field")

\* Measurement.get_tags
get_tags(c) == SelectSeq2(c.dict, "Tag")

Keys(entries) == {entries[i].key : i \in DOMAIN entries}

DescOf(c, key) == (CHOOSE i \in DOMAIN c.dict : c.dict[i].key = key) 

DescAt(c, key) == c.dict[DescOf(c, key)].desc

RECURSIVE InitKwargs(_, _, _)
\* the loop of my_custom_init over init_kwargs.items(): every key that
\* names a descriptor is assigned through it; the first failure ends it
InitKwargs(c, data, kwargs) ==
    IF kwargs = <<>> THEN Ok(data)
    ELSE LET key == kwargs[1].key
             value == kwargs[1].value
         IN IF key \in Keys(get_fields(c)) \cup Keys(get_tags(c))
            THEN LET exc == Descriptor__set__(DescAt(c, key), value)
                 IN IF exc # "none" THEN Raise(exc)
                    ELSE InitKwargs(c, DictPut(data, key, value), Tail(kwargs))
            ELSE Raise("Exception")

\* my_custom_init, the __init__ MeasurementMeta gives every class
my_custom_init(c, time_point, kwargs) ==
    LET filled == InitKwargs(c, EmptyDict, kwargs)
    IN IF filled.exc # "none" THEN filled
       ELSE Ok([exists |-> TRUE, data |-> filled.value, time_point |-> time_point])

-----------------------------------------------------------------------------
(* String literals of the source, as character sequences *)

S_null == <<"n", "u", "l", "l">>
S_previous == <<"p", "r", "e", "v", "i", "o", "u", "s">>
S_number == <<"n", "u", "m", "b", "e", "r">>
S_none == <<"n", "o", "n", "e">>
S_linear == <<"l", "i", "n", "e", "a", "r">>
S_mean == <<"m", "e", "a", "n">>
S_median == <<"m", "e", "d", "i", "a", "n">>
S_count == <<"c", "o", "u", "n", "t">>
S_min == <<"m", "i", "n">>
S_max == <<"m", "a", "x">>
S_sum == <<"s", "u", "m">>
S_first == <<"f", "i", "r", "s", "t">>
S_last == <<"l", "a", "s", "t">>
S_spread == <<"s", "p", "r", "e", "a", "d">>
S_stddev == <<"s", "t", "d", "d", "e", "v">>
S_close_AS == <<")", " ", "A", "S", " ">>
S_SELECT == <<"S", "E", "L", "E", "C", "T", " ">>
S_SELECT_STAR_FROM == <<"S", "E", "L", "E", "C", "T", " ", "*", " ", "F", "R", "O", "M", " ">>
S_FROM == <<" ", "F", "R", "O", "M", " ">>
S_WHERE == <<" ", "W", "H", "E", "R", "E", " ">>
S_AND == <<" ", "A", "N", "D", " ">>
S_LIMIT == <<" ", "L", "I", "M", "I", "T", " ">>
S_GROUP_BY_TIME == <<" ", "G", "R", "O", "U", "P", " ", "B", "Y", " ", "t", "i", "m", "e", "(">>
S_FILL == <<" ", "F", "I", "L", "L", "(">>
S_comma == <<",", " ">>
S_time_ge == <<"t", "i", "m", "e", " ", ">", "=", " ", "'">>
S_time_le == <<"t", "i", "m", "e", " ", "<", "=", " ", "'">>
S_and_time_lt == <<"'", " ", "a", "n", "d", " ", "t", "i", "m", "e", " ", "<", " ", "'">>
S_AS == <<" ", "A", "S", " ">>
S_show_tag_values == <<"s", "h", "o", "w", " ", "t", "a", "g", " ", "v", "a", "l", "u", "e", "s">>
S_from == <<" ", "f", "r", "o", "m", " ">>
S_with_key == <<"w", "i", "t", "h", " ", "k", "e", "y", " ", "=", " ", "\"">>
S_None == <<"N", "o", "n", "e">>
S_True == <<"T", "r", "u", "e">>

-----------------------------------------------------------------------------
(* Measurement.get_name *)

\* position of the first `ch` in s at or after index i, 0 if there is none
RECURSIVE IndexFrom(_, _, _)
IndexFrom(s, ch, i) ==
    IF i > Len(s) THEN 0
    ELSE IF s[i] = ch THEN i
    ELSE IndexFrom(s, ch, i + 1)

RECURSIVE FindAllFrom(_, _)
\* re.findall('\((.*?)\)', s) from index i: each match runs from a "(" to
\* the first ")" after it, and the scan resumes behind that ")"
FindAllFrom(s, i) ==
    LET open == IndexFrom(s, "(", i)
        close == IF open = 0 THEN 0 ELSE IndexFrom(s, ")", open + 1)
    IN IF close = 0 THEN <<>>
       ELSE <<SubSeq(s, open + 1, close - 1)>> \o FindAllFrom(s, close + 1)

FindAll(s) == FindAllFrom(s, 1)

\* a Python dict argument that may be None: [isNone, items], items the
\* (key, value) entries in iteration order
NoneDict == [isNone |-> TRUE, items |-> <<>>]
Dict(items) == [isNone |-> FALSE, items |-> items]

HasKey(d, key) == \E i \in DOMAIN d.items : d.items[i].key = key
Lookup(d, key) == d.items[CHOOSE i \in DOMAIN d.items : d.items[i].key = key].value

\* d[key] = value on a dict kept as its entries in insertion order
EntriesPut(entries, key, value) ==
    IF \E i \in DOMAIN entries : entries[i].key = key
    THEN [i \in DOMAIN entries |->
            IF entries[i].key = key THEN [key |-> key, value |-> value] ELSE entries[i]]
    ELSE Append(entries, [key |-> key, value |-> value])

RECURSIVE ResolveTagsLenient(_, _, _)
\* the loop of get_name passing over a tag the mapping lacks
ResolveTagsLenient(measurement_name, name_tags, name_resolution_tags) ==
    IF name_tags = <<>> THEN Ok(measurement_name)
    ELSE IF name_resolution_tags.isNone THEN Raise("Exception")
    ELSE IF HasKey(name_resolution_tags, name_tags[1])
            /\ Lookup(name_resolution_tags, name_tags[1]).ty # "str"
         THEN Raise("TypeError")
    ELSE ResolveTagsLenient(measurement_name, Tail(name_tags), name_resolution_tags)

RECURSIVE ResolveTags(_, _, _)
\* the loop of get_name over name_tags.  str.replace is called and its
\* result dropped: it only raises when the tag value is no str
ResolveTags(measurement_name, name_tags, name_resolution_tags) ==
    IF name_tags = <<>> THEN Ok(measurement_name)
    ELSE IF name_resolution_tags.isNone THEN Raise("Exception")
    ELSE IF HasKey(name_resolution_tags, name_tags[1])
         THEN IF Lookup(name_resolution_tags, name_tags[1]).ty # "str"
              THEN Raise("TypeError")
              ELSE ResolveTags(measurement_name, Tail(name_tags), name_resolution_tags)
    ELSE Raise("Exception")

RECURSIVE StrReplace(_, _, _)
\* s.replace(old, new), old not empty
StrReplace(s, old, new) ==
    IF Len(s) < Len(old) THEN s
    ELSE IF SubSeq(s, 1, Len(old)) = old
         THEN new \o StrReplace(SubSeq(s, Len(old) + 1, Len(s)), old, new)
    ELSE <<s[1]>> \o StrReplace(Tail(s), old, new)

RECURSIVE ResolveTagsReplacing(_, _, _)
\* get_name's loop with the result of str.replace kept
ResolveTagsReplacing(measurement_name, name_tags, name_resolution_tags) ==
    IF name_tags = <<>> THEN Ok(measurement_name)
    ELSE IF name_resolution_tags.isNone THEN Raise("Exception")
    ELSE IF HasKey(name_resolution_tags, name_tags[1])
         THEN IF Lookup(name_resolution_tags, name_tags[1]).ty # "str"
              THEN Raise("TypeError")
              ELSE ResolveTagsReplacing(
                       StrReplace(measurement_name, <<"(">> \o name_tags[1] \o <<")">>,
                                  Lookup(name_resolution_tags, name_tags[1]).v),
                       Tail(name_tags), name_resolution_tags)
    ELSE Raise("Exception")

\* Measurement.get_name(cls, name_resolution_tags)
get_name(c, name_resolution_tags) ==
    ResolveTags(c.measurement_name, FindAll(c.measurement_name), name_resolution_tags)

-----------------------------------------------------------------------------
(* Measurement: reading the descriptors, serializing a record *)

\* Field.__get__ with None for a name that was never assigned
Field__get__DefaultNone(instance, name) ==
    IF name \in DOMAIN instance.data THEN Ok(instance.data[name]) ELSE Ok(None)

\* Field.__get__: instance._data[self.name]
Field__get__(instance, name) ==
    IF name \in DOMAIN instance.data THEN Ok(instance.data[name]) ELSE Raise("KeyError")

\* Tag.__get__: instance._data[self.name]
Tag__get__(instance, name) ==
    IF name \in DOMAIN instance.data THEN Ok(instance.data[name]) ELSE Raise("KeyError")

\* self.__getattribute__(name) for a descriptor of the class
Descriptor__get__(desc, instance) ==
    IF desc.kind = "Tag" THEN Tag__get__(instance, desc.name)
    ELSE Field__get__(instance, desc.name)

RECURSIVE ValuesAsDict(_, _, _)
\* the loop of get_*_values_as_dict over the descriptors of one kind: the
\* (name, value) entries in class __dict__ order; the first read that
\* raises ends it
ValuesAsDict(entries, instance, acc) ==
    IF entries = <<>> THEN Ok(acc)
    ELSE LET read == Descriptor__get__(entries[1].desc, instance)
         IN IF read.exc # "none" THEN read
            ELSE ValuesAsDict(Tail(entries), instance,
                    EntriesPut(acc, entries[1].desc.name, read.value))

\* Measurement.get_field_values_as_dict (get_fields_and_field_values_as_dict
\* reads the same values)
get_field_values_as_dict(c, instance) == ValuesAsDict(get_fields(c), instance, <<>>)

\* Measurement.get_tag_values_as_dict (get_tags_and_tag_values_as_dict)
get_tag_values_as_dict(c, instance) == ValuesAsDict(get_tags(c), instance, <<>>)

\* str(self.time_point), rendered as the count of seconds, a point and
\* three digits of milliseconds
datetime__str__(millis) ==
    IntStr(millis \div 1000) \o <<".">> \o Tail(NatStr(1000 + (millis % 1000)))

\* is some descriptor among entries non-nullable while its value is None
NullInNonNullable(entries, values) ==
    \E i \in DOMAIN entries :
        ~entries[i].desc.null /\ IsNone(Lookup(Dict(values), entries[i].desc.name))

NoWire == [measurement |-> <<>>, tags |-> <<>>, time |-> <<>>, fields |-> <<>>]

\* Measurement.get_cli_format
get_cli_format(c, instance) ==
    LET fields_iter == get_field_values_as_dict(c, instance)
    IN IF fields_iter.exc # "none" THEN fields_iter
       ELSE IF NullInNonNullable(get_fields(c), fields_iter.value) THEN Raise("ValueError")
       ELSE LET tags_iter == get_tag_values_as_dict(c, instance)
            IN IF tags_iter.exc # "none" THEN tags_iter
               ELSE IF NullInNonNullable(get_tags(c), tags_iter.value) THEN Raise("ValueError")
               ELSE LET measurement_name == get_name(c, Dict(tags_iter.value))
                    IN IF measurement_name.exc # "none" THEN measurement_name
                       ELSE Ok([measurement |-> measurement_name.value,
                                tags |-> tags_iter.value,
                                time |-> datetime__str__(instance.time_point),
                                fields |-> fields_iter.value])

-----------------------------------------------------------------------------
(* client.py: the enumerations *)

\* FillMode.get_str
FillMode_get_str(mode) ==
    CASE mode = "NULL" -> S_null
      [] mode = "PREVIOUS" -> S_previous
      [] mode = "NUMBER" -> S_number
      [] mode = "NONE" -> S_none
      [] mode = "LINEAR" -> S_linear

\* AggregationMode.get_str
AggregationMode_get_str(mode) ==
    CASE mode = "NONE" -> <<>>
      [] mode = "MEAN" -> S_mean
      [] mode = "MEDIAN" -> S_median
      [] mode = "COUNT" -> S_count
      [] mode = "MIN" -> S_min
      [] mode = "MAX" -> S_max
      [] mode = "SUM" -> S_sum
      [] mode = "FIRST" -> S_first
      [] mode = "LAST" -> S_last
      [] mode = "SPREAD" -> S_spread
      [] mode = "STDDEV" -> S_stddev

AggregationModes ==
    {"NONE", "MEAN", "MEDIAN", "COUNT", "MIN", "MAX", "SUM", "FIRST", "LAST",
     "SPREAD", "STDDEV"}

\* AggregationMode.get_result_field_name
get_result_field_name(mode, field_name) ==
    IF mode = "NONE" THEN field_name
    ELSE AggregationMode_get_str(mode) \o <<"_">> \o field_name

\* aggregate_field with the alias built without the separating underscore
aggregate_field_AliasNoUnderscore(mode, field_name) ==
    IF mode = "NONE" THEN field_name
    ELSE AggregationMode_get_str(mode) \o <<"(">> \o field_name \o S_close_AS
         \o AggregationMode_get_str(mode) \o field_name

\* AggregationMode.aggregate_field
aggregate_field(mode, field_name) ==
    IF mode = "NONE" THEN field_name
    ELSE LET str_value == AggregationMode_get_str(mode)
         IN str_value \o <<"(">> \o field_name \o S_close_AS
            \o str_value \o <<"_">> \o field_name

\* AggregationTimeUnit.from_str
AggregationTimeUnit_from_str(unit_str) ==
    CASE unit_str = "m" -> Ok("MINUTE")
      [] unit_str = "d" -> Ok("DAY")
      [] unit_str = "h" -> Ok("HOUR")
      [] unit_str = "s" -> Ok("SECOND")
      [] OTHER -> Raise("Exception")

RECURSIVE DigitsValue(_)
\* the number a non-empty string of decimal digits denotes
DigitsValue(s) ==
    IF Len(s) = 1 THEN DigitValue(s[1])
    ELSE 10 * DigitsValue(SubSeq(s, 1, Len(s) - 1)) + DigitValue(s[Len(s)])

RECURSIVE StripSpaces(_)
StripSpaces(s) ==
    IF s # <<>> /\ s[1] = " " THEN StripSpaces(Tail(s))
    ELSE IF s # <<>> /\ s[Len(s)] = " " THEN StripSpaces(SubSeq(s, 1, Len(s) - 1))
    ELSE s

\* int(s): blanks around, an optional sign, then decimal digits (digit
\* groups joined by underscores are not among the strings tried)
PyIntOf(s) ==
    LET t == StripSpaces(s)
        signed == t # <<>> /\ t[1] \in {"+", "-"}
        digits == IF signed THEN Tail(t) ELSE t
    IN IF digits = <<>> \/ \E i \in DOMAIN digits : digits[i] \notin DigitChars
       THEN Raise("ValueError")
       ELSE Ok(IF signed /\ t[1] = "-" THEN 0 - DigitsValue(digits) ELSE DigitsValue(digits))

\* AggregationWindowIndex.get_value_and_unit: the tuple is evaluated left
\* to right, after the last character has been read
get_value_and_unit(group_by_time_str) ==
    IF group_by_time_str = <<>> THEN Raise("IndexError")
    ELSE LET value == PyIntOf(SubSeq(group_by_time_str, 1, Len(group_by_time_str) - 1))
             unit == AggregationTimeUnit_from_str(group_by_time_str[Len(group_by_time_str)])
         IN IF value.exc # "none" THEN value
            ELSE IF unit.exc # "none" THEN unit
            ELSE Ok([value |-> value.value, unit |-> unit.value])

\* milliseconds in one unit: datetime.timedelta(days=1), (hours=1), ...
\* (datetimes and timedeltas are counted in milliseconds; every time tried
\* is a whole number of them)
UnitMillis(unit) ==
    CASE unit = "DAY" -> 86400000
      [] unit = "HOUR" -> 3600000
      [] unit = "MINUTE" -> 60000
      [] unit = "SECOND" -> 1000

\* the half interval taken with an integer division of the value
HalfDeltaFloorDiv(value, unit) == (value \div 2) * UnitMillis(unit)

\* datetime.timedelta(<unit>=value / 2.0) in milliseconds: the float
\* number of units is converted to the time it stands for
HalfDelta(value, unit) == (value * UnitMillis(unit)) \div 2

\* the offset of the CENTER of a window from its start
CenterDelta(value, unit) == HalfDelta(value, unit)

\* the offset of the END of a window from its start
EndDelta(value, unit) == value * UnitMillis(unit)

\* AggregationWindowIndex.get_time_point_of_window
get_time_point_of_window(self, window_start_time, group_by_time_str) ==
    IF self = "START" THEN Ok(window_start_time)
    ELSE LET parsed == get_value_and_unit(group_by_time_str)
         IN IF parsed.exc # "none" THEN parsed
            ELSE IF self = "CENTER"
                 THEN Ok(window_start_time + CenterDelta(parsed.value.value, parsed.value.unit))
            ELSE Ok(window_start_time + EndDelta(parsed.value.value, parsed.value.unit))

-----------------------------------------------------------------------------
(* The libraries and the store the client talks to *)

\* str.format of a value: str(value)
PyFormat(value) ==
    CASE value.ty = "str" -> value.v
      [] value.ty = "NoneType" -> S_None
      [] value.ty = "bool" -> IF value.v = 1 THEN S_True ELSE <<"F", "a", "l", "s", "e">>
      [] OTHER -> IntStr(value.v)

\* rfc3339.format(dt, use_system_timezone=False): a UTC timestamp with
\* whole seconds, rendered here as the count of seconds followed by Z
Rfc3339Format(millis) == IntStr(millis \div 1000) \o <<"Z">>

\* the timestamp strings of the store's rows: seconds, a point, three
\* digits of milliseconds, Z
InfluxTime(millis) ==
    IntStr(millis \div 1000) \o <<".">> \o Tail(NatStr(1000 + (millis % 1000))) \o <<"Z">>

\* parse_influx_str_time: dateutil parses the row's timestamp; astimezone
\* keeps the instant
parse_influx_str_time(time_str) ==
    LET point == IndexFrom(time_str, ".", 1)
    IN DigitsValue(SubSeq(time_str, 1, point - 1)) * 1000
       + DigitsValue(SubSeq(time_str, point + 1, Len(time_str) - 1))

RECURSIVE FindSub(_, _, _)
\* index of the first occurrence of sub in s at or after i, 0 if none
FindSub(s, sub, i) ==
    IF i + Len(sub) - 1 > Len(s) THEN 0
    ELSE IF SubSeq(s, i, i + Len(sub) - 1) = sub THEN i
    ELSE FindSub(s, sub, i + 1)

RECURSIVE Split(_, _)
\* s.split(sep)
Split(s, sep) ==
    LET at == FindSub(s, sep, 1)
    IN IF at = 0 THEN <<s>>
       ELSE <<SubSeq(s, 1, at - 1)>> \o Split(SubSeq(s, at + Len(sep), Len(s)), sep)

\* the column the store names a select expression by: its alias if it
\* has one, else the expression
StoreColumn(expr) ==
    LET at == FindSub(expr, S_AS, 1)
    IN IF at = 0 THEN expr ELSE SubSeq(expr, at + Len(S_AS), Len(expr))

\* the select expressions of a query string, as the store reads them
StoreSelectList(query_string) ==
    LET from == FindSub(query_string, S_FROM, 1)
    IN Split(SubSeq(query_string, Len(S_SELECT) + 1, from - 1), S_comma)

\* the rows the store answers an aggregation query with, one per bucket
\* time: the k-th select expression yields the value k in its column
StorePoints(query_string, times) ==
    LET exprs == StoreSelectList(query_string)
    IN [r \in DOMAIN times |->
            [time |-> InfluxTime(times[r]),
             cols |-> [k \in DOMAIN exprs |->
                          [key |-> StoreColumn(exprs[k]), value |-> PyInt(k)]]]]

\* p.get(name) on a row
RowGet(row, name) ==
    IF \E k \in DOMAIN row.cols : row.cols[k].key = name
    THEN row.cols[CHOOSE k \in DOMAIN row.cols :
                      /\ row.cols[k].key = name
                      /\ \A j \in DOMAIN row.cols : row.cols[j].key = name => k <= j].value
    ELSE None

-----------------------------------------------------------------------------
(* client.py: InfluxClient *)

NoTime == [isNone |-> TRUE, t |-> 0]
Time(t) == [isNone |-> FALSE, t |-> t]

\* a time_range argument: None, a datetime.date (counted in days), or a
\* (since, until) tuple of datetimes, each possibly None
NoRange == [kind |-> "None", day |-> 0, since |-> NoTime, until |-> NoTime]
DateRange(day) == [kind |-> "date", day |-> day, since |-> NoTime, until |-> NoTime]
TupleRange(since, until) == [kind |-> "tuple", day |-> 0, since |-> since, until |-> until]

\* midnight of a date, in milliseconds
DateMillis(day) == day * UnitMillis("DAY")

\* the tag conditions: one "<tag>"='<value>' per entry of tags
TagConditions(tags) ==
    IF tags.isNone THEN <<>>
    ELSE [i \in DOMAIN tags.items |->
            <<"\"">> \o tags.items[i].key \o <<"\"", "=", "'">>
            \o PyFormat(tags.items[i].value) \o <<"'">>]

\* the time conditions of a time_range
TimeConditions(time_range) ==
    CASE time_range.kind = "None" -> <<>>
      [] time_range.kind = "date" ->
            <<S_time_ge \o Rfc3339Format(DateMillis(time_range.day)) \o S_and_time_lt
              \o Rfc3339Format(DateMillis(time_range.day + 1)) \o <<"'">> >>
      [] OTHER ->
            (IF time_range.since.isNone THEN <<>>
             ELSE <<S_time_ge \o Rfc3339Format(time_range.since.t) \o <<"'">> >>)
            \o (IF time_range.until.isNone THEN <<>>
                ELSE <<S_time_le \o Rfc3339Format(time_range.until.t) \o <<"'">> >>)

\* and_conditions_list, built alike by load_points and get_fields_as_series
and_conditions_list(tags, time_range) == TagConditions(tags) \o TimeConditions(time_range)

\* the WHERE clause joined with a lower-case "and"
WhereClauseLowerAnd(conditions) ==
    IF Len(conditions) > 0 THEN S_WHERE \o Join(<<" ", "a", "n", "d", " ">>, conditions) ELSE <<>>

\* query_string += " WHERE " + " AND ".join(and_conditions_list)
WhereClause(conditions) ==
    IF Len(conditions) > 0 THEN S_WHERE \o Join(S_AND, conditions) ELSE <<>>

NoLimit == [isNone |-> TRUE, n |-> 0]
Limit(n) == [isNone |-> FALSE, n |-> n]

\* query_string += " LIMIT {limit}"
LimitClause(limit) == IF limit.isNone THEN <<>> ELSE S_LIMIT \o IntStr(limit.n)

\* the query string of load_points, given the resolved measurement name
load_points_query(measurement_name, tags, time_range, limit) ==
    S_SELECT_STAR_FROM \o measurement_name
    \o WhereClause(and_conditions_list(tags, time_range))
    \o LimitClause(limit) \o <<";">>

\* the keyword arguments load_points builds from a row: every field, then
\* every tag, read from the row by name
RowKwargs(c, row) ==
    LET names == get_fields(c) \o get_tags(c)
    IN [i \in DOMAIN names |-> [key |-> names[i].key, value |-> RowGet(row, names[i].key)]]

RECURSIVE MeasurementsOf(_, _)
\* measurement_type(**data_points) for each row, in order
MeasurementsOf(c, rows) ==
    IF rows = <<>> THEN Ok(<<>>)
    ELSE LET made == my_custom_init(c, parse_influx_str_time(rows[1].time), RowKwargs(c, rows[1]))
             rest == MeasurementsOf(c, Tail(rows))
         IN IF made.exc # "none" THEN made
            ELSE IF rest.exc # "none" THEN rest
            ELSE Ok(<<made.value>> \o rest.value)

NoQuery == <<>>   \* no query string was sent to the store

\* InfluxClient.load_points; rows is what db_client.query answers.  The
\* outcome carries the query string sent, if one was
load_points(c, tags, time_range, limit, rows) ==
    LET name == get_name(c, tags)
    IN IF name.exc # "none" THEN [exc |-> name.exc, query |-> NoQuery, value |-> <<>>]
       ELSE LET query_string == load_points_query(name.value, tags, time_range, limit)
                made == MeasurementsOf(c, rows)
            IN [exc |-> made.exc, query |-> query_string,
                value |-> IF made.exc = "none" THEN made.value ELSE <<>>]

\* re.compile('^[1-9][0-9]*[dhms]$').match(s): `$` also matches before a
\* newline that ends the string
group_by_time_regex_match(s) ==
    LET core == IF s # <<>> /\ s[Len(s)] = "\n" THEN SubSeq(s, 1, Len(s) - 1) ELSE s
    IN /\ Len(core) >= 2
       /\ core[1] \in DigitChars \ {"0"}
       /\ \A i \in 2..(Len(core) - 1) : core[i] \in DigitChars
       /\ core[Len(core)] \in {"d", "h", "m", "s"}

NoInterval == [isNone |-> TRUE, s |-> <<>>]
Interval(s) == [isNone |-> FALSE, s |-> s]

NoModes == [isNone |-> TRUE, items |-> <<>>]
Modes(items) == [isNone |-> FALSE, items |-> items]

NoNumber == [isNone |-> TRUE, n |-> 0]
Number(n) == [isNone |-> FALSE, n |-> n]

RECURSIVE SelectProperties(_, _, _)
\* the loop over field_aggregations.items(): the select expressions
\* (properties) and the result columns (aggregated_field_names), or the
\* exception for a name that is no field of the measurement
SelectProperties(fields, items, acc) ==
    IF items = <<>> THEN Ok(acc)
    ELSE LET field_name == items[1].key
             aggregation_modes == items[1].value
         IN IF field_name \notin Keys(fields) THEN Raise("Exception")
            ELSE IF aggregation_modes.isNone \/ Len(aggregation_modes.items) = 0
                 THEN SelectProperties(fields, Tail(items),
                        [properties |-> Append(acc.properties, field_name),
                         aggregated_field_names |-> Append(acc.aggregated_field_names, field_name)])
            ELSE SelectProperties(fields, Tail(items),
                    [properties |->
                        acc.properties
                        \o [m \in DOMAIN aggregation_modes.items |->
                               aggregate_field(aggregation_modes.items[m], field_name)],
                     aggregated_field_names |->
                        acc.aggregated_field_names
                        \o [m \in DOMAIN aggregation_modes.items |->
                               get_result_field_name(aggregation_modes.items[m], field_name)]])

\* the select list joined with a bare comma
SelectClauseNoSpace(properties) == Join(<<",">>, properties)

\* ', '.join(properties)
SelectClause(properties) == Join(S_comma, properties)

\* query_string += " GROUP BY time({time_interval})"
GroupByClause(group_by_time_interval) ==
    IF group_by_time_interval.isNone THEN <<>>
    ELSE S_GROUP_BY_TIME \o group_by_time_interval.s \o <<")">>

\* query_string += " FILL(...)"
FillClause(fill_mode, fill_number) ==
    IF fill_mode = "None" THEN <<>>
    ELSE IF fill_mode = "NUMBER" THEN S_FILL \o IntStr(fill_number.n) \o <<")">>
    ELSE S_FILL \o FillMode_get_str(fill_mode) \o <<")">>

\* the query string of get_fields_as_series
series_query(properties, measurement_name, tags, time_range, group_by_time_interval, limit, fill_mode, fill_number) ==
    S_SELECT \o SelectClause(properties) \o S_FROM \o measurement_name
    \o WhereClause(and_conditions_list(tags, time_range))
    \o GroupByClause(group_by_time_interval)
    \o LimitClause(limit)
    \o FillClause(fill_mode, fill_number)

RECURSIVE WindowTimes(_, _, _)
\* times with a group-by interval: the window point of every row
WindowTimes(window_index_location, group_by_time_interval, points) ==
    IF points = <<>> THEN Ok(<<>>)
    ELSE LET first == get_time_point_of_window(window_index_location,
                        parse_influx_str_time(points[1].time), group_by_time_interval.s)
             rest == WindowTimes(window_index_location, group_by_time_interval, Tail(points))
         IN IF first.exc # "none" THEN first
            ELSE IF rest.exc # "none" THEN rest
            ELSE Ok(<<first.value>> \o rest.value)

\* times without a group-by interval: the timestamps of the rows
RowTimes(points) == [r \in DOMAIN points |-> parse_influx_str_time(points[r].time)]

\* the `times` of get_fields_as_series
SeriesTimes(window_index_location, group_by_time_interval, points) ==
    IF ~group_by_time_interval.isNone
    THEN WindowTimes(window_index_location, group_by_time_interval, points)
    ELSE Ok(RowTimes(points))

RECURSIVE ResultDict(_, _, _, _)
\* result_dict: one Series per aggregated field name, the rows' values
\* under that name indexed by times
ResultDict(names, points, times, acc) ==
    IF names = <<>> THEN acc
    ELSE ResultDict(Tail(names), points, times,
            EntriesPut(acc, names[1],
                [r \in DOMAIN points |->
                    [index |-> times[r], data |-> RowGet(points[r], names[1])]]))

Failed(exc) == [exc |-> exc, query |-> NoQuery, value |-> <<>>]

\* the fill asserts with the else branch left out
fill_assertsNumberOnly(fill_mode, fill_number) ==
    IF fill_mode = "NUMBER" /\ fill_number.isNone THEN "AssertionError" ELSE "none"

\* the two asserts on (fill_mode, fill_number) of get_fields_as_series
fill_asserts(fill_mode, fill_number) ==
    IF fill_mode # "None" /\ fill_mode = "NUMBER"
    THEN IF fill_number.isNone THEN "AssertionError" ELSE "none"
    ELSE IF ~fill_number.isNone THEN "AssertionError" ELSE "none"

\* InfluxClient.get_fields_as_series; bucket_times are the bucket starts
\* of the rows db_client.query answers
get_fields_as_series(c, field_aggregations, tags, group_by_time_interval, fill_mode, fill_number, window_index_location, time_range, limit, bucket_times) ==
    IF field_aggregations.isNone \/ Len(field_aggregations.items) = 0
    THEN Failed("Exception")
    ELSE IF fill_asserts(fill_mode, fill_number) # "none"
         THEN Failed(fill_asserts(fill_mode, fill_number))
    ELSE IF ~group_by_time_interval.isNone
            /\ ~group_by_time_regex_match(group_by_time_interval.s)
         THEN Failed("AssertionError")
    ELSE LET name == get_name(c, tags)
         IN IF name.exc # "none" THEN Failed(name.exc)
            ELSE LET selected == SelectProperties(get_fields(c), field_aggregations.items,
                                    [properties |-> <<>>, aggregated_field_names |-> <<>>])
                 IN IF selected.exc # "none" THEN Failed(selected.exc)
                    ELSE LET query_string ==
                                 series_query(selected.value.properties, name.value, tags,
                                              time_range, group_by_time_interval, limit,
                                              fill_mode, fill_number)
                             points == StorePoints(query_string, bucket_times)
                             times == SeriesTimes(window_index_location,
                                                  group_by_time_interval, points)
                         IN IF times.exc # "none"
                            THEN [exc |-> times.exc, query |-> query_string, value |-> <<>>]
                            ELSE [exc |-> "none", query |-> query_string,
                                  value |-> ResultDict(selected.value.aggregated_field_names,
                                                       points, times.value, <<>>)]

\* InfluxClient.get_distinct_existing_tag_values; values is the "value"
\* column of the rows db_client.query answers
get_distinct_existing_tag_values(tag_name, measurement_given, c, name_resolution_tags, values) ==
    LET name == IF measurement_given THEN get_name(c, name_resolution_tags) ELSE Ok(<<>>)
    IN IF name.exc # "none" THEN Failed(name.exc)
       ELSE [exc |-> "none",
             query |-> S_show_tag_values
                       \o (IF measurement_given THEN S_from \o name.value ELSE <<>>)
                       \o <<" ">> \o S_with_key \o tag_name \o <<"\"">>,
             value |-> Range(values)]

\* InfluxClient.save_points: every item is serialized, then one
\* write_points call hands the whole list to the store.  written is the
\* list the store received, called whether write_points was called
save_points(c, items) ==
    LET items_list == [i \in DOMAIN items |-> get_cli_format(c, items[i])]
    IN IF \E i \in DOMAIN items : items_list[i].exc # "none"
       THEN [exc |-> items_list[CHOOSE i \in DOMAIN items :
                                    /\ items_list[i].exc # "none"
                                    /\ \A j \in 1..(i - 1) : items_list[j].exc = "none"].exc,
             called |-> FALSE, written |-> <<>>]
       ELSE [exc |-> "none", called |-> TRUE,
             written |-> [i \in DOMAIN items |-> items_list[i].value]]

\* the row the store answers with for a written wire record: the time as
\* the store renders it, the fields that are not None under their names,
\* the tags that are not None as strings
StoreRowOf(wire) ==
    [time |-> InfluxTime(parse_influx_str_time(wire.time \o <<"Z">>)),
     cols |-> SelectSeq(wire.fields, LAMBDA e : ~IsNone(e.value))
              \o [i \in DOMAIN SelectSeq(wire.tags, LAMBDA e : ~IsNone(e.value)) |->
                    LET e == SelectSeq(wire.tags, LAMBDA t : ~IsNone(t.value))[i]
                    IN [key |-> e.key, value |-> PyStr(PyFormat(e.value))]]]

\* get_cli_format of a record, then load_points' mapping of the row that
\* holds what was written
WriteThenLoad(c, instance) ==
    LET wire == get_cli_format(c, instance)
    IN IF wire.exc # "none" THEN wire
       ELSE LET made == MeasurementsOf(c, <<StoreRowOf(wire.value)>>)
            IN IF made.exc # "none" THEN made ELSE Ok(made.value[1])

-----------------------------------------------------------------------------
(* The inputs the calls are tried on *)

N_x == <<"x">>
N_h == <<"h">>
N_q == <<"q">>
S_a1 == <<"a", "1">>
S_z == <<"z">>
S_b == <<"b">>

NoneObj == [py |-> "NoneType", items |-> <<>>]
ListObj(items) == [py |-> "list", items |-> items]
SetObj(items) == [py |-> "set", items |-> items]
TupleObj(items) == [py |-> "tuple", items |-> items]
EnumClass(items) == [py |-> "EnumMeta", items |-> items]   \* class E(Enum) with these member values
PlainClass == [py |-> "type", items |-> <<>>]              \* a class that is no Enum

\* values offered to fields
Values ==
    {None, PyInt(1), PyInt(3), PyBool(TRUE), PyFloat(3), PyStr(S_a1), PyStr(S_z)}

\* values offered to tags
TagValues == {None, PyStr(S_a1), PyInt(1)}

StrOptions ==
    {NoneObj, TupleObj(<<PyStr(S_a1), PyStr(S_z)>>), ListObj(<<>>),
     ListObj(<<PyStr(S_a1), PyStr(S_a1)>>), ListObj(<<PyStr(S_a1), PyInt(1)>>),
     ListObj(<<PyStr(S_a1), PyStr(S_b)>>), SetObj(<<PyStr(S_a1)>>)}

IntOptions ==
    {NoneObj, TupleObj(<<PyInt(1), PyInt(3)>>), ListObj(<<>>),
     ListObj(<<PyInt(1), PyInt(1)>>), ListObj(<<PyInt(1), PyBool(TRUE)>>),
     ListObj(<<PyInt(1), PyStr(S_a1)>>), ListObj(<<PyInt(1), PyInt(5)>>),
     ListObj(<<PyBool(TRUE), PyInt(5)>>), SetObj(<<PyInt(5)>>)}

StrEnums ==
    {NoneObj, ListObj(<<PyStr(S_a1)>>), PlainClass, EnumClass(<<>>),
     EnumClass(<<PyStr(S_a1), PyStr(S_a1)>>), EnumClass(<<PyStr(S_a1), PyInt(1)>>),
     EnumClass(<<PyStr(S_a1), PyStr(S_b)>>)}

IntEnums ==
    {NoneObj, ListObj(<<PyInt(1)>>), PlainClass, EnumClass(<<>>),
     EnumClass(<<PyInt(1), PyInt(1)>>), EnumClass(<<PyInt(1), PyStr(S_a1)>>),
     EnumClass(<<PyInt(1), PyInt(5)>>), EnumClass(<<PyBool(TRUE), PyInt(5)>>)}

\* the first argument offered to each descriptor class
DomainArgs(class) ==
    CASE class = "MultipleChoiceStringField" -> StrOptions
      [] class = "MultipleChoiceIntegerField" -> IntOptions
      [] class = "EnumStringField" -> StrEnums
      [] class = "EnumIntegerField" -> IntEnums
      [] class = "Field" -> {"INTEGER"}
      [] OTHER -> {NoneObj}

FieldClasses ==
    {"Field", "IntegerField", "FloatField", "BooleanField", "StringField"}
    \cup ConstrainedClasses

\* class body statements: `x = <a field class>(...)` and `h = Tag(...)`
FieldStatements ==
    {[id |-> N_x, class |-> class, domain |-> domain, name |-> NoName, null |-> null] :
        <<class, domain, null>> \in
            UNION {{class} \X DomainArgs(class) \X BOOLEAN : class \in FieldClasses}}

TagStatements ==
    {[id |-> N_h, class |-> "Tag", domain |-> NoneObj, name |-> NoName, null |-> null] :
        null \in BOOLEAN}

\* `x = IntegerField(name='h')` followed by `h = Tag(...)`: two descriptors
\* of one name
SameNameBodies ==
    {<<[id |-> N_x, class |-> "IntegerField", domain |-> NoneObj, name |-> N_h, null |-> TRUE], t>> :
        t \in TagStatements}

ClassBodies ==
    {<<>>} \cup {<<f>> : f \in FieldStatements} \cup {<<t>> : t \in TagStatements}
    \cup {<<f, t>> : <<f, t>> \in FieldStatements \X TagStatements}
    \cup SameNameBodies

ClassName == <<"C", "p", "u">>
M_dynamic == <<"c", "_", "(", "h", ")">>

\* Meta.measurement_name of the declared class: absent, or a template
MetaNames == {NoName, M_dynamic}

TimePoints == {0, 1500}

\* keyword arguments of a constructor call, in call order
Kwargs ==
    {<<>>} \cup {<<[key |-> N_x, value |-> v]>> : v \in Values}
    \cup {<<[key |-> N_h, value |-> v]>> : v \in TagValues}
    \cup {<<[key |-> N_x, value |-> v], [key |-> N_h, value |-> w]>> :
            <<v, w>> \in Values \X TagValues}
    \cup {<<[key |-> N_h, value |-> w], [key |-> N_x, value |-> v]>> :
            <<v, w>> \in Values \X TagValues}
    \cup {<<[key |-> N_q, value |-> PyInt(1)]>>}

-----------------------------------------------------------------------------
(* Declaring a schema, constructing a record, assigning through the        *)
(* descriptors                                                             *)

Init ==
    /\ cls = NoClass
    /\ inst = NoInst
    /\ ret = [op |-> "start", exc |-> "none"]

\* class Cpu(Measurement): ...
DeclareMeasurement ==
    /\ ~cls.exists
    /\ \E meta_name \in MetaNames, body \in ClassBodies :
        LET made == ClassStatement(ClassName, meta_name, body)
        IN /\ cls' = IF made.exc = "none" THEN made.value ELSE cls
           /\ ret' = [op |-> "class", body |-> body, exc |-> made.exc]
    /\ UNCHANGED inst

\* record = Cpu(time_point, **kwargs): the record that is then observed
Construct ==
    /\ cls.exists
    /\ ~inst.exists
    /\ \E time_point \in TimePoints, kwargs \in Kwargs :
        LET made == my_custom_init(cls, time_point, kwargs)
        IN /\ inst' = IF made.exc = "none" THEN made.value ELSE inst
           /\ ret' = [op |-> "construct", kwargs |-> kwargs, exc |-> made.exc]
    /\ UNCHANGED cls

\* record.<name> = value, for a descriptor of the class
SetAttr ==
    /\ inst.exists
    /\ \E key \in Keys(cls.dict) :
        \E value \in IF DescAt(cls, key).kind = "Tag" THEN TagValues ELSE Values :
            LET exc == Descriptor__set__(DescAt(cls, key), value)
            IN /\ inst' = IF exc = "none"
                          THEN [inst EXCEPT !.data = DictPut(inst.data, key, value)]
                          ELSE inst
               /\ ret' = [op |-> "setattr", key |-> key, value |-> value, exc |-> exc]
    /\ UNCHANGED cls

\* record.<name>, for a descriptor of the class
GetAttr ==
    /\ inst.exists
    /\ \E key \in Keys(cls.dict) :
        LET read == Descriptor__get__(DescAt(cls, key), inst)
        IN ret' = [op |-> "getattr", key |-> key, exc |-> read.exc, value |-> read.value]
    /\ UNCHANGED <<cls, inst>>

\* record.get_cli_format()
GetCliFormat ==
    /\ inst.exists
    /\ LET wire == get_cli_format(cls, inst)
       IN ret' = [op |-> "get_cli_format", exc |-> wire.exc,
                  value |-> IF wire.exc = "none" THEN wire.value ELSE NoWire]
    /\ UNCHANGED <<cls, inst>>

\* the record is written and the row read back by load_points
RoundTrip ==
    /\ inst.exists
    /\ LET back == WriteThenLoad(cls, inst)
       IN ret' = [op |-> "round_trip", exc |-> back.exc,
                  value |-> IF back.exc = "none" THEN back.value ELSE NoInst]
    /\ UNCHANGED <<cls, inst>>

Next == DeclareMeasurement \/ Construct \/ SetAttr \/ GetAttr \/ GetCliFormat \/ RoundTrip

Spec == Init /\ [][Next]_vars

-----------------------------------------------------------------------------
(* Queries: the inputs *)

MaxPoints == 1   \* rows the store answers a query with, at most
MaxLimit == 5    \* the largest limit asked for

N_y == <<"y">>
N_r == <<"r">>
M_static == <<"m">>

\* class Cpu(Measurement): x = FloatField(); y = IntegerField(); h = Tag()
QueryBody ==
    <<[id |-> N_x, class |-> "FloatField", domain |-> NoneObj, name |-> NoName, null |-> TRUE],
      [id |-> N_y, class |-> "IntegerField", domain |-> NoneObj, name |-> NoName, null |-> TRUE],
      [id |-> N_h, class |-> "Tag", domain |-> NoneObj, name |-> NoName, null |-> TRUE]>>

M_unbound == <<"c", "_", "(", "r", ")">>   \* a placeholder that names no declared tag

QueryMetaNames == {M_static, M_dynamic, M_unbound}

Entry(key, value) == [key |-> key, value |-> value]

T_h == Dict(<<Entry(N_h, PyStr(S_a1))>>)

\* tags / name_resolution_tags offered to load_points and get_name
TagDicts ==
    {NoneDict, Dict(<<>>), T_h,
     Dict(<<Entry(N_h, PyStr(S_a1)), Entry(N_r, PyStr(S_b))>>),
     Dict(<<Entry(N_r, PyStr(S_b)), Entry(N_h, PyStr(S_a1))>>)}

\* tags offered to get_fields_as_series
SeriesTagDicts == {NoneDict, T_h}

Since == Time(2000)
Until == Time(90000000)

TimeRanges ==
    {NoRange, DateRange(1), TupleRange(NoTime, NoTime), TupleRange(Since, NoTime),
     TupleRange(NoTime, Until), TupleRange(Since, Until)}

SeriesTimeRanges == {NoRange, TupleRange(Since, Until)}

Limits == {NoLimit, Limit(0), Limit(MaxLimit)}

SeriesLimits == {NoLimit, Limit(MaxLimit)}

SeqsUpTo(S, n) == UNION {[1..k -> S] : k \in 0..n}

\* rows a SELECT * may be answered with: a full row, and a row without
\* the y and h columns
StarRows ==
    {[time |-> InfluxTime(1500),
      cols |-> <<Entry(N_x, PyFloat(3)), Entry(N_y, PyInt(1)), Entry(N_h, PyStr(S_a1))>>],
     [time |-> InfluxTime(3000), cols |-> <<Entry(N_x, PyFloat(3))>>]}

BucketTimes == {1500}

WindowStarts == {0, 1500}

\* group_by_time_str arguments
IntervalStrings ==
    {<<"2", "h">>, <<"3", "s">>, <<"1", "d">>, <<"5", "m">>, <<"1", "0", "s">>,
     <<"0", "s">>, <<"1", "0", "x">>, <<"s", "1", "0">>, <<"-", "5", "s">>, <<>>,
     <<"5", "m", "\n">>}

GroupByIntervals ==
    {NoInterval} \cup {Interval(s) : s \in IntervalStrings \ {<<"-", "5", "s">>, <<>>}}

WindowIndexes == {"START", "CENTER", "END"}

FillModes == {"None", "NULL", "PREVIOUS", "NUMBER", "NONE", "LINEAR"}

\* (fill_mode, fill_number) arguments
Fills ==
    {<<mode, NoNumber>> : mode \in FillModes}
    \cup {<<"NUMBER", Number(7)>>, <<"None", Number(7)>>, <<"NULL", Number(7)>>}

\* field_aggregations arguments
FieldAggregations ==
    {NoneDict, Dict(<<>>),
     Dict(<<Entry(N_x, NoModes)>>),
     Dict(<<Entry(N_x, Modes(<<>>))>>),
     Dict(<<Entry(N_x, Modes(<<"MEAN">>))>>),
     Dict(<<Entry(N_x, Modes(<<"NONE">>))>>),
     Dict(<<Entry(N_x, Modes(<<"MEAN", "MAX">>)), Entry(N_y, Modes(<<>>))>>),
     Dict(<<Entry(N_y, Modes(<<"COUNT">>)), Entry(N_x, Modes(<<"MAX", "NONE", "MEAN">>))>>),
     Dict(<<Entry(N_h, Modes(<<"MEAN">>))>>),
     Dict(<<Entry(N_x, Modes(<<"MEAN", "MEAN">>))>>),
     Dict(<<Entry(N_x, Modes(<<"MEAN">>)), Entry(N_q, Modes(<<>>))>>)}

FieldNames == {N_x, N_y, <<"t", "e", "m", "p">>}

\* keyword arguments of the records handed to save_points
QueryKwargs ==
    {<<>>, <<Entry(N_h, PyStr(S_a1))>>,
     <<Entry(N_x, PyFloat(3)), Entry(N_y, PyInt(1)), Entry(N_h, PyStr(S_a1))>>,
     <<Entry(N_x, PyFloat(3)), Entry(N_y, None), Entry(N_h, None)>>}

\* field and tag names of lowercase letters, digits and underscores
ColumnNames == SeqsUpTo({"c", "p", "1", "_"}, 3) \ {<<>>}

-----------------------------------------------------------------------------
(* Queries: each call of the client on a declared measurement *)

InitQuery ==
    /\ cls \in {ClassStatement(ClassName, meta_name, QueryBody).value :
                    meta_name \in QueryMetaNames}
    /\ inst = NoInst
    /\ ret = [op |-> "start", exc |-> "none"]

\* Measurement.get_name(Cpu, name_resolution_tags)
GetName ==
    /\ ret.op = "start"
    /\ \E tags \in TagDicts :
        LET got == get_name(cls, tags)
        IN ret' = [op |-> "get_name", tags |-> tags, exc |-> got.exc, value |-> got.value]
    /\ UNCHANGED <<cls, inst>>

\* mode.aggregate_field(field_name) and mode.get_result_field_name(field_name)
AggregationModeCalls ==
    /\ ret.op = "start"
    /\ \E mode \in AggregationModes, field_name \in FieldNames :
        ret' = [op |-> "aggregation_mode", mode |-> mode, field_name |-> field_name,
                exc |-> "none",
                expression |-> aggregate_field(mode, field_name),
                result_field_name |-> get_result_field_name(mode, field_name)]
    /\ UNCHANGED <<cls, inst>>

\* index.get_time_point_of_window(window_start_time, group_by_time_str)
GetTimePointOfWindow ==
    /\ ret.op = "start"
    /\ \E self \in WindowIndexes, t \in WindowStarts, s \in IntervalStrings :
        LET got == get_time_point_of_window(self, t, s)
        IN ret' = [op |-> "get_time_point_of_window", self |-> self,
                   window_start_time |-> t, group_by_time_str |-> s,
                   exc |-> got.exc, value |-> got.value]
    /\ UNCHANGED <<cls, inst>>

\* client.load_points(Cpu, tags, time_range, limit)
LoadPoints ==
    /\ ret.op = "start"
    /\ \E tags \in TagDicts, time_range \in TimeRanges, limit \in Limits,
          rows \in SeqsUpTo(StarRows, MaxPoints) :
        LET got == load_points(cls, tags, time_range, limit, rows)
        IN ret' = [op |-> "load_points", tags |-> tags, time_range |-> time_range,
                   limit |-> limit, rows |-> rows,
                   exc |-> got.exc, query |-> got.query, value |-> got.value]
    /\ UNCHANGED <<cls, inst>>

\* client.get_fields_as_series(Cpu, field_aggregations, tags, ...)
GetFieldsAsSeries ==
    /\ ret.op = "start"
    /\ \E field_aggregations \in FieldAggregations, tags \in SeriesTagDicts,
          group_by_time_interval \in GroupByIntervals, fill \in Fills,
          window_index_location \in WindowIndexes, time_range \in SeriesTimeRanges,
          limit \in SeriesLimits, bucket_times \in SeqsUpTo(BucketTimes, MaxPoints) :
        LET got == get_fields_as_series(cls, field_aggregations, tags,
                        group_by_time_interval, fill[1], fill[2], window_index_location,
                        time_range, limit, bucket_times)
        IN ret' = [op |-> "get_fields_as_series", field_aggregations |-> field_aggregations,
                   tags |-> tags, group_by_time_interval |-> group_by_time_interval,
                   fill_mode |-> fill[1], fill_number |-> fill[2],
                   window_index_location |-> window_index_location,
                   time_range |-> time_range, limit |-> limit,
                   bucket_times |-> bucket_times,
                   exc |-> got.exc, query |-> got.query, value |-> got.value]
    /\ UNCHANGED <<cls, inst>>

\* client.get_distinct_existing_tag_values(tag_name, measurement, name_resolution_tags)
GetDistinctExistingTagValues ==
    /\ ret.op = "start"
    /\ \E measurement_given \in BOOLEAN, tags \in TagDicts,
          values \in SeqsUpTo({PyStr(S_a1), PyStr(S_b)}, MaxPoints + 1) :
        LET got == get_distinct_existing_tag_values(N_h, measurement_given, cls, tags, values)
        IN ret' = [op |-> "get_distinct_existing_tag_values",
                   measurement_given |-> measurement_given, tags |-> tags,
                   exc |-> got.exc, query |-> got.query, value |-> got.value]
    /\ UNCHANGED <<cls, inst>>

\* client.save_points(items), the items built by Cpu(time_point, **kwargs)
SavePoints ==
    /\ ret.op = "start"
    /\ \E kwargs \in SeqsUpTo(QueryKwargs, MaxPoints + 1) :
        LET items == [i \in DOMAIN kwargs |-> my_custom_init(cls, 1500, kwargs[i]).value]
            got == save_points(cls, items)
        IN ret' = [op |-> "save_points", items |-> items, exc |-> got.exc,
                   called |-> got.called, written |-> got.written]
    /\ UNCHANGED <<cls, inst>>

\* dataframe_column_to_field_name(field_to_dataframe_column_name(name))
ColumnName ==
    /\ ret.op = "start"
    /\ \E field_name \in ColumnNames :
        LET column == field_to_dataframe_column_name(field_name)
            back == dataframe_column_to_field_name(column)
        IN ret' = [op |-> "column_name", field_name |-> field_name, column |-> column,
                   exc |-> back.exc, value |-> back.value]
    /\ UNCHANGED <<cls, inst>>

NextQuery ==
    \/ SavePoints
    \/ ColumnName
    \/ GetName
    \/ AggregationModeCalls
    \/ GetTimePointOfWindow
    \/ LoadPoints
    \/ GetFieldsAsSeries
    \/ GetDistinctExistingTagValues

SpecQuery == InitQuery /\ [][NextQuery]_vars

-----------------------------------------------------------------------------
(* Claims about descriptors and records *)

\* the valueType the data model gives a descriptor: a tag is a string, a
\* field has the type of its field_type; a boolean is not an integer
ValueTypeOfDescriptor(desc) ==
    IF desc.kind = "Tag" THEN "str"
    ELSE CASE desc.field_type = "INTEGER" -> "int"
           [] desc.field_type = "FLOAT" -> "float"
           [] desc.field_type = "BOOLEAN" -> "bool"
           [] OTHER -> "str"

StoredValueValid(desc, value) ==
    /\ ~desc.null => ~IsNone(value)
    /\ ~IsNone(value) => value.ty = ValueTypeOfDescriptor(desc)
    /\ desc.class \in ConstrainedClasses /\ ~IsNone(value) =>
            \E o \in desc.options : o.ty = value.ty /\ o.v = value.v

\* C8: every value stored in a Record satisfies the Record invariant: a
\* non-nullable descriptor holds no null, each non-null value has exactly
\* the descriptor's valueType (tags are strings, a boolean is no integer),
\* and each value of a constrained field lies in its domain.
C8_RecordInvariant ==
    inst.exists =>
        \A key \in DOMAIN inst.data : StoredValueValid(DescAt(cls, key), inst.data[key])

\* C9: assigning null through a descriptor fails when the descriptor is
\* non-nullable, and succeeds, storing null, when it is nullable.
C9_NullAssignment ==
    ret.op = "setattr" /\ IsNone(ret.value) =>
        IF DescAt(cls, ret.key).null
        THEN /\ ret.exc = "none"
             /\ ret.key \in DOMAIN inst.data
             /\ IsNone(inst.data[ret.key])
        ELSE ret.exc # "none"

\* a null assignment to a non-nullable constrained field was rejected
C9_Witness ==
    /\ ret.op = "setattr"
    /\ IsNone(ret.value)
    /\ DescAt(cls, ret.key).class \in ConstrainedClasses
    /\ ~DescAt(cls, ret.key).null
    /\ ret.exc = "AssertionError"

\* a domain argument the data model forbids: null, no list or set (no Enum
\* class), empty, with duplicates, or with a member of another type than
\* the descriptor's valueType
BadDomain(class, domain) ==
    \/ domain.py = "NoneType"
    \/ class \in {"MultipleChoiceStringField", "MultipleChoiceIntegerField"}
            /\ domain.py \notin {"list", "set"}
    \/ class \in {"EnumStringField", "EnumIntegerField"} /\ domain.py # "EnumMeta"
    \/ domain.items = <<>>
    \/ \E i, j \in DOMAIN domain.items :
            i # j /\ domain.items[i].ty = domain.items[j].ty
                  /\ domain.items[i].v = domain.items[j].v
    \/ \E i \in DOMAIN domain.items :
            domain.items[i].ty # (IF ValueTypeOf(class) = "int" THEN "int" ELSE "str")

\* C10: constructing a constrained descriptor with a null, wrongly typed,
\* empty, duplicated or wrong-membered domain fails at construction, and
\* no declared descriptor has a domain that is empty or holds a member of
\* another type than its valueType.
C10_BadDomainFailsAtConstruction ==
    /\ ret.op = "class" =>
            \A i \in DOMAIN ret.body :
                (/\ ret.body[i].class \in ConstrainedClasses
                 /\ BadDomain(ret.body[i].class, ret.body[i].domain))
                    => ret.exc # "none"
    /\ cls.exists =>
            \A i \in DOMAIN cls.dict :
                cls.dict[i].desc.class \in ConstrainedClasses =>
                    /\ cls.dict[i].desc.options # {}
                    /\ \A o \in cls.dict[i].desc.options :
                            o.ty = ValueTypeOfDescriptor(cls.dict[i].desc)

-----------------------------------------------------------------------------
(* Claims about name resolution and the query strings *)

S_time_ge_bare == <<"t", "i", "m", "e", " ", ">", "=", " ">>
S_time_le_bare == <<"t", "i", "m", "e", " ", "<", "=", " ">>
S_and_time_lt_bare == <<" ", "a", "n", "d", " ", "t", "i", "m", "e", " ", "<", " ">>
C2_EXAMPLE == <<"S", "E", "L", "E", "C", "T", " ", "*", " ", "F", "R", "O", "M", " ", "m", " ", "W", "H", "E", "R", "E", " ", "\"", "h", "\"", "=", "'", "a", "1", "'", " ", "A", "N", "D", " ", "t", "i", "m", "e", " ", "<", "=", " ", "'", "9", "0", "0", "0", "0", "Z", "'", " ", "L", "I", "M", "I", "T", " ", "5", ";">>
C3_EXAMPLE == <<"c", "o", "u", "n", "t", "(", "y", ")", " ", "A", "S", " ", "c", "o", "u", "n", "t", "_", "y", ",", " ", "m", "a", "x", "(", "x", ")", " ", "A", "S", " ", "m", "a", "x", "_", "x", ",", " ", "x", ",", " ", "m", "e", "a", "n", "(", "x", ")", " ", "A", "S", " ", "m", "e", "a", "n", "_", "x">>

StartsWith(s, prefix) == Len(s) >= Len(prefix) /\ SubSeq(s, 1, Len(prefix)) = prefix

\* the template with every placeholder replaced by its tag value
ResolvedName(c, tags) ==
    ResolveTagsReplacing(c.measurement_name, FindAll(c.measurement_name), tags).value

\* C1: get_name returns the name template with every (tagName) placeholder
\* replaced by the value given for that tag, and the template itself when
\* it has no placeholder; load_points queries the measurement of that name.
C1_NameResolved ==
    /\ ret.op = "get_name" /\ ret.exc = "none" => ret.value = ResolvedName(cls, ret.tags)
    /\ ret.op = "load_points" /\ ret.query # NoQuery =>
            StartsWith(ret.query, S_SELECT_STAR_FROM \o ResolvedName(cls, ret.tags))

RECURSIVE C2_AndJoined(_)
\* the conditions, each after the first preceded by " AND "
C2_AndJoined(conditions) ==
    IF Len(conditions) = 1 THEN conditions[1]
    ELSE C2_AndJoined(SubSeq(conditions, 1, Len(conditions) - 1))
         \o S_AND \o conditions[Len(conditions)]

C2_Quoted(text) == <<"'">> \o text \o <<"'">>

\* the conditions of a call: the tag equalities in the mapping's order,
\* then those of the time range
C2_Conditions(tags, time_range) ==
    [i \in 1..Len(tags.items) |->
        <<"\"">> \o tags.items[i].key \o <<"\"", "=">> \o C2_Quoted(tags.items[i].value.v)]
    \o (IF time_range.kind = "date"
        THEN <<S_time_ge_bare \o C2_Quoted(Rfc3339Format(DateMillis(time_range.day)))
               \o S_and_time_lt_bare
               \o C2_Quoted(Rfc3339Format(DateMillis(time_range.day + 1)))>>
        ELSE <<>>)
    \o (IF time_range.kind = "tuple" /\ ~time_range.since.isNone
        THEN <<S_time_ge_bare \o C2_Quoted(Rfc3339Format(time_range.since.t))>> ELSE <<>>)
    \o (IF time_range.kind = "tuple" /\ ~time_range.until.isNone
        THEN <<S_time_le_bare \o C2_Quoted(Rfc3339Format(time_range.until.t))>> ELSE <<>>)

C2_Expected(name, tags, time_range, limit) ==
    LET conditions == C2_Conditions(tags, time_range)
    IN S_SELECT_STAR_FROM \o name
       \o (IF conditions # <<>> THEN S_WHERE \o C2_AndJoined(conditions) ELSE <<>>)
       \o (IF ~limit.isNone THEN S_LIMIT \o IntStr(limit.n) ELSE <<>>)
       \o <<";">>

SelectClauseOf(query_string) ==
    SubSeq(query_string, Len(S_SELECT) + 1, FindSub(query_string, S_FROM, 1) - 1)

RECURSIVE C3_Expressions(_)
\* the expressions asked for, in the order of the fields and of the modes
\* of each field
C3_Expressions(items) ==
    IF items = <<>> THEN <<>>
    ELSE (IF items[1].value.isNone \/ items[1].value.items = <<>>
          THEN <<items[1].key>>
          ELSE [m \in DOMAIN items[1].value.items |->
                    aggregate_field(items[1].value.items[m], items[1].key)])
         \o C3_Expressions(Tail(items))

RECURSIVE C3_CommaJoined(_)
C3_CommaJoined(exprs) ==
    IF Len(exprs) = 1 THEN exprs[1]
    ELSE exprs[1] \o <<",", " ">> \o C3_CommaJoined(Tail(exprs))

\* the fields the schema declares (tags are none of them)
C3_DeclaredFields == {cls.dict[i].key : i \in {j \in DOMAIN cls.dict : cls.dict[j].desc.kind = "Field"}}

\* C3: the select clause of get_fields_as_series is the comma-joined list
\* of the expressions in the input order of fields and of modes, a field
\* without modes giving its bare name; the call fails when a name of the
\* aggregation spec is no declared field (a tag included) and when the
\* spec is null or empty.
C3_SelectClause ==
    ret.op = "get_fields_as_series" =>
        /\ ret.field_aggregations.isNone \/ ret.field_aggregations.items = <<>>
                => ret.exc # "none" /\ ret.query = NoQuery
        /\ (\E i \in DOMAIN ret.field_aggregations.items :
                ret.field_aggregations.items[i].key \notin C3_DeclaredFields)
                => ret.exc # "none" /\ ret.query = NoQuery
        /\ ret.query # NoQuery =>
                SelectClauseOf(ret.query) = C3_CommaJoined(C3_Expressions(ret.field_aggregations.items))

\* two fields, one with three modes and one with one, were selected
C3_Witness ==
    /\ ret.op = "get_fields_as_series"
    /\ ret.exc = "none"
    /\ Len(ret.field_aggregations.items) = 2
    /\ SelectClauseOf(ret.query) = C3_EXAMPLE

C4_Expected(select_list, name, tags, time_range, interval, limit, fill_mode, fill_number) ==
    LET conditions == C2_Conditions(tags, time_range)
    IN S_SELECT \o select_list \o S_FROM \o name
       \o (IF conditions # <<>> THEN S_WHERE \o C2_AndJoined(conditions) ELSE <<>>)
       \o (IF ~interval.isNone THEN S_GROUP_BY_TIME \o interval.s \o <<")">> ELSE <<>>)
       \o (IF ~limit.isNone THEN S_LIMIT \o IntStr(limit.n) ELSE <<>>)
       \o (IF fill_mode = "None" THEN <<>>
           ELSE IF ~fill_number.isNone THEN S_FILL \o IntStr(fill_number.n) \o <<")">>
           ELSE S_FILL \o FillMode_get_str(fill_mode) \o <<")">>)
       \o <<";">>

\* C4: every query string of load_points and of get_fields_as_series has
\* the grammar's form: SELECT, FROM, WHERE with conditions separated by
\* AND if there are conditions (the two bounds of a day by "and"), GROUP BY time(<N><unit>) iff an interval is
\* set, LIMIT iff a limit is set, FILL(<n>) or FILL(<keyword>) iff a fill
\* policy is set, in this order, and a closing ";".
C4_QueryGrammar ==
    /\ ret.op = "load_points" /\ ret.query # NoQuery =>
            ret.query = C4_Expected(<<"*">>, get_name(cls, ret.tags).value, ret.tags,
                                    ret.time_range, NoInterval, ret.limit, "None", NoNumber)
    /\ ret.op = "get_fields_as_series" /\ ret.query # NoQuery =>
            ret.query = C4_Expected(SelectClauseOf(ret.query), get_name(cls, ret.tags).value,
                                    ret.tags, ret.time_range, ret.group_by_time_interval,
                                    ret.limit, ret.fill_mode, ret.fill_number)

-----------------------------------------------------------------------------
(* Claims about the aggregation catalog and the window index *)

C5_MEAN_TEMP == <<"m", "e", "a", "n", "(", "t", "e", "m", "p", ")", " ", "A", "S", " ", "m", "e", "a", "n", "_", "t", "e", "m", "p">>
C5_MEAN_TEMP_COLUMN == <<"m", "e", "a", "n", "_", "t", "e", "m", "p">>

\* C5: the alias aggregate_field puts after AS is get_result_field_name of
\* the same mode and field, <fn>(<field>) AS <fn>_<field> and <fn>_<field>
\* for every mode but NONE and the bare field for NONE, so that a result
\* row read by the result column holds the value of that expression.
C5_AliasIsResultColumn ==
    /\ ret.op = "aggregation_mode" =>
            /\ StoreColumn(ret.expression) = ret.result_field_name
            /\ IF ret.mode = "NONE"
               THEN ret.expression = ret.field_name /\ ret.result_field_name = ret.field_name
               ELSE /\ ret.expression = AggregationMode_get_str(ret.mode) \o <<"(">>
                                        \o ret.field_name \o <<")", " ", "A", "S", " ">>
                                        \o ret.result_field_name
                    /\ ret.result_field_name = AggregationMode_get_str(ret.mode) \o <<"_">>
                                               \o ret.field_name
                    /\ AggregationMode_get_str(ret.mode) # <<>>
            /\ ret.mode = "MEAN" /\ ret.field_name = <<"t", "e", "m", "p">> =>
                    /\ ret.expression = C5_MEAN_TEMP
                    /\ ret.result_field_name = C5_MEAN_TEMP_COLUMN
    /\ ret.op = "get_fields_as_series" /\ ret.exc = "none" =>
            \A i \in DOMAIN ret.value : \A r \in DOMAIN ret.value[i].value :
                ~IsNone(ret.value[i].value[r].data)

\* a row was read by the result columns of three aggregations and a bare
\* field, and each column held a value
C5_Witness ==
    /\ ret.op = "get_fields_as_series"
    /\ ret.exc = "none"
    /\ Len(ret.value) = 4
    /\ \A i \in DOMAIN ret.value :
            Len(ret.value[i].value) = 1 /\ ~IsNone(ret.value[i].value[1].data)

\* <positive integer><unit> with unit among s, m, h, d
C6_WellFormed(s) ==
    /\ Len(s) >= 2
    /\ s[Len(s)] \in {"s", "m", "h", "d"}
    /\ \A i \in 1..(Len(s) - 1) : s[i] \in DigitChars
    /\ \E i \in 1..(Len(s) - 1) : s[i] # "0"

\* N * unit in milliseconds for a well-formed interval
C6_IntervalMillis(s) ==
    DigitsValue(SubSeq(s, 1, Len(s) - 1))
    * (CASE s[Len(s)] = "s" -> 1000 [] s[Len(s)] = "m" -> 60 * 1000
         [] s[Len(s)] = "h" -> 60 * 60 * 1000 [] s[Len(s)] = "d" -> 24 * 60 * 60 * 1000)

C6_Aligned(index, t, s, point) ==
    CASE index = "START" -> point = t
      [] index = "END" -> point = t + C6_IntervalMillis(s)
      [] index = "CENTER" -> 2 * (point - t) = C6_IntervalMillis(s)

\* C6: for an interval <N><unit>, N positive, get_time_point_of_window
\* returns t for START, t + N*unit for END and t + N*unit/2 for CENTER,
\* exactly, also for odd N; the rows of get_fields_as_series are labelled
\* with these window points when a group-by interval is given and with the
\* rows' own timestamps when it is not, whatever the alignment.
C6_WindowPoint ==
    /\ ret.op = "get_time_point_of_window" /\ C6_WellFormed(ret.group_by_time_str) =>
            /\ ret.exc = "none"
            /\ C6_Aligned(ret.self, ret.window_start_time, ret.group_by_time_str, ret.value)
    /\ ret.op = "get_fields_as_series" /\ ret.exc = "none" =>
            \A i \in DOMAIN ret.value :
                /\ Len(ret.value[i].value) = Len(ret.bucket_times)
                /\ \A r \in DOMAIN ret.bucket_times :
                    IF ret.group_by_time_interval.isNone
                    THEN ret.value[i].value[r].index = ret.bucket_times[r]
                    ELSE C6_WellFormed(ret.group_by_time_interval.s) =>
                            C6_Aligned(ret.window_index_location, ret.bucket_times[r],
                                       ret.group_by_time_interval.s,
                                       ret.value[i].value[r].index)

\* a row of a query grouped by 3s was labelled with the center of its
\* window, one and a half seconds after the bucket start
C6_Witness ==
    /\ ret.op = "get_fields_as_series"
    /\ ret.exc = "none"
    /\ ret.window_index_location = "CENTER"
    /\ ret.group_by_time_interval = Interval(<<"3", "s">>)
    /\ ret.bucket_times = <<1500>>
    /\ ret.value[1].value[1].index = 3000

\* C7: get_time_point_of_window fails, for START, CENTER and END alike,
\* whenever the interval string is not <positive integer><unit>.
C7_MalformedIntervalFails ==
    ret.op = "get_time_point_of_window" /\ ~C6_WellFormed(ret.group_by_time_str) =>
        ret.exc # "none"

-----------------------------------------------------------------------------
(* Claims about serialization, the round trip and schema declaration *)

\* the (name, value) entries of the record for the declared descriptors of
\* one kind
C11_ValuesOf(entries) ==
    [i \in DOMAIN entries |-> [key |-> entries[i].key, value |-> inst.data[entries[i].key]]]

\* some non-nullable descriptor of the class holds no value or null
C11_NullInNonNullable ==
    \E i \in DOMAIN cls.dict :
        /\ ~cls.dict[i].desc.null
        /\ cls.dict[i].key \in DOMAIN inst.data => IsNone(inst.data[cls.dict[i].key])

\* C11: get_cli_format fails when a non-nullable field or tag of the record
\* is null, and otherwise returns the wire record: the resolved measurement
\* name, the declared tags with the record's tag values, the declared
\* fields with the record's field values, and the record's timestamp.
C11_WireRecord ==
    ret.op = "get_cli_format" =>
        IF C11_NullInNonNullable THEN ret.exc # "none"
        ELSE /\ ret.exc = "none"
             /\ \A i \in DOMAIN cls.dict : cls.dict[i].key \in DOMAIN inst.data
             /\ ret.value.tags = C11_ValuesOf(get_tags(cls))
             /\ ret.value.fields = C11_ValuesOf(get_fields(cls))
             /\ ret.value.time = datetime__str__(inst.time_point)
             /\ ret.value.measurement = ResolvedName(cls, Dict(ret.value.tags))

\* the placeholders of the name template are declared tags, every declared
\* descriptor holds a value, and the values satisfy the Record invariant
C12_ValidRecord ==
    /\ inst.exists
    /\ \A k \in DOMAIN FindAll(cls.measurement_name) :
            FindAll(cls.measurement_name)[k] \in Keys(get_tags(cls))
    /\ \A i \in DOMAIN cls.dict :
        /\ cls.dict[i].key \in DOMAIN inst.data
        /\ StoredValueValid(cls.dict[i].desc, inst.data[cls.dict[i].key])

\* C12: writing a valid record and mapping the row that holds what was
\* written back with load_points' row mapping gives a record with the same
\* timestamp and the same value for every declared field and tag.
C12_RoundTrip ==
    ret.op = "round_trip" /\ C12_ValidRecord =>
        /\ ret.exc = "none"
        /\ ret.value.time_point = inst.time_point
        /\ \A i \in DOMAIN cls.dict :
            /\ cls.dict[i].key \in DOMAIN ret.value.data
            /\ ret.value.data[cls.dict[i].key] = inst.data[cls.dict[i].key]

\* the names the descriptors of a class body are declared under
C17_DeclaredNames(body) ==
    [i \in DOMAIN body |-> IF body[i].name = NoName THEN body[i].id ELSE body[i].name]

\* C17: a class statement whose descriptors share a name, or whose name
\* template has a placeholder that is no declared Tag, fails; a declared
\* class has unique descriptor names, only resolvable placeholders, and
\* keeps every descriptor of its body.
C17_SchemaDeclaration ==
    ret.op = "class" /\ ret.exc = "none" =>
        LET names == C17_DeclaredNames(ret.body)
            placeholders == FindAll(cls.measurement_name)
        IN /\ \A i, j \in DOMAIN names : names[i] = names[j] => i = j
           /\ \A k \in DOMAIN placeholders : placeholders[k] \in Keys(get_tags(cls))
           /\ Len(cls.dict) = Len(ret.body)

\* every keyword argument of the constructor call names a descriptor of
\* the class that accepts its value
C20_KwargsAccepted ==
    \A i \in DOMAIN ret.kwargs :
        /\ ret.kwargs[i].key \in Keys(cls.dict)
        /\ Descriptor__set__(DescAt(cls, ret.kwargs[i].key), ret.kwargs[i].value) = "none"

\* C20: a constructor call succeeds whichever declared descriptors it
\* omits, non-nullable ones included; reading a descriptor that was never
\* assigned fails, and so does get_cli_format while any declared
\* descriptor, nullable or not, was never assigned; an assigned descriptor
\* reads as the stored value.
C20_OmittedDescriptor ==
    /\ ret.op = "construct" /\ C20_KwargsAccepted => ret.exc = "none" /\ inst.exists
    /\ ret.op = "getattr" =>
            IF ret.key \in DOMAIN inst.data
            THEN ret.exc = "none" /\ ret.value = inst.data[ret.key]
            ELSE ret.exc # "none"
    /\ ret.op = "get_cli_format"
            /\ (\E i \in DOMAIN cls.dict : cls.dict[i].key \notin DOMAIN inst.data)
         => ret.exc # "none"

\* a record built without its non-nullable field was read at that field
C20_Witness ==
    /\ ret.op = "getattr"
    /\ DescAt(cls, ret.key).kind = "Field"
    /\ ~DescAt(cls, ret.key).null
    /\ ret.key \notin DOMAIN inst.data
    /\ ret.exc = "KeyError"

-----------------------------------------------------------------------------
(* Claims about failures of the client calls and about result columns *)

\* the placeholders of the name template that the tag mapping cannot
\* resolve: the mapping is null or lacks the tag
C16_MissingTag(c, tags) ==
    \E k \in DOMAIN FindAll(c.measurement_name) :
        tags.isNone \/ ~HasKey(tags, FindAll(c.measurement_name)[k])

\* the whole string is a positive decimal integer without leading zero
\* followed by one unit letter
C14_Grammar(s) ==
    /\ Len(s) >= 2
    /\ s[1] \in DigitChars \ {"0"}
    /\ \A i \in 2..(Len(s) - 1) : s[i] \in DigitChars
    /\ s[Len(s)] \in {"d", "h", "m", "s"}

\* the fill number is present exactly when the fill mode is NUMBER
C15_Coupled(fill_mode, fill_number) == (fill_mode = "NUMBER") <=> ~fill_number.isNone

\* C13: when load_points, get_fields_as_series or
\* get_distinct_existing_tag_values fails on name resolution or on the
\* query specification (a malformed group-by interval included), no query
\* has been sent to the store; when save_points fails on an item, nothing
\* has been written.
C13_FailsBeforeCall ==
    /\ ret.op = "load_points" /\ C16_MissingTag(cls, ret.tags) =>
            ret.exc # "none" /\ ret.query = NoQuery
    /\ ret.op = "get_distinct_existing_tag_values" /\ ret.exc # "none" =>
            ret.query = NoQuery
    /\ ret.op = "get_fields_as_series" /\ ret.exc # "none" => ret.query = NoQuery
    /\ ret.op = "save_points" /\ ret.exc # "none" => ~ret.called /\ ret.written = <<>>

\* C14: get_fields_as_series rejects a group-by interval unless the whole
\* string is a positive decimal integer without leading zero followed by
\* one of d, h, m, s, and rejects no call for its interval when the
\* interval is absent or of that form.
C14_GroupByGrammar ==
    ret.op = "get_fields_as_series" =>
        /\ ~ret.group_by_time_interval.isNone /\ ~C14_Grammar(ret.group_by_time_interval.s)
                => ret.exc # "none"
        /\ (ret.group_by_time_interval.isNone \/ C14_Grammar(ret.group_by_time_interval.s))
           /\ C15_Coupled(ret.fill_mode, ret.fill_number)
                => ret.exc # "AssertionError"

\* C15: get_fields_as_series fails when the fill mode is NUMBER and no
\* fill number is given, and when a fill number is given with another fill
\* mode or with none; a call whose fill number is present exactly for
\* NUMBER is not rejected for its fill arguments.
C15_FillCoupling ==
    ret.op = "get_fields_as_series" =>
        /\ ~C15_Coupled(ret.fill_mode, ret.fill_number) =>
                ret.exc # "none" /\ ret.query = NoQuery
        /\ C15_Coupled(ret.fill_mode, ret.fill_number) /\ ret.group_by_time_interval.isNone
                => ret.exc # "AssertionError"
        /\ ret.exc = "none" /\ ret.fill_mode = "NUMBER" =>
                FindSub(ret.query, S_FILL \o IntStr(ret.fill_number.n), 1) > 0

\* a fill number given without a fill mode was rejected
C15_Witness ==
    /\ ret.op = "get_fields_as_series"
    /\ ret.fill_mode = "None"
    /\ ~ret.fill_number.isNone
    /\ ~ret.field_aggregations.isNone
    /\ Len(ret.field_aggregations.items) > 0
    /\ ret.exc = "AssertionError"

\* the mapping a record hands to get_name: an entry for every declared tag
C16_OwnTags ==
    Dict([i \in DOMAIN get_tags(cls) |-> [key |-> get_tags(cls)[i].key, value |-> None]])

\* C16: get_name fails whenever the tag mapping is null or lacks a tag
\* named by a placeholder of the template; no caller gets a name in that
\* case: not get_name itself, not the queries (read path), not save_points
\* with the records' own tags (write path).
C16_MissingTagFails ==
    /\ ret.op = "get_name" /\ C16_MissingTag(cls, ret.tags) => ret.exc = "Exception"
    /\ ret.op \in {"load_points", "get_fields_as_series"} /\ C16_MissingTag(cls, ret.tags) =>
            ret.exc # "none" /\ ret.query = NoQuery
    /\ ret.op = "get_distinct_existing_tag_values" /\ ret.measurement_given
       /\ C16_MissingTag(cls, ret.tags) => ret.exc = "Exception" /\ ret.query = NoQuery
    /\ ret.op = "save_points" /\ ret.items # <<>>
       /\ C16_MissingTag(cls, C16_OwnTags) => ret.exc # "none" /\ ~ret.called

\* get_name was asked to resolve c_(h) with a mapping that has no h
C16_Witness ==
    /\ ret.op = "get_name"
    /\ cls.measurement_name = M_dynamic
    /\ ~ret.tags.isNone
    /\ ~HasKey(ret.tags, N_h)
    /\ ret.exc = "Exception"

\* C18: turning a field or tag name of lowercase letters, digits and
\* underscores into its column label and back gives the name again.
C18_ColumnNameReversible ==
    ret.op = "column_name" => ret.exc = "none" /\ ret.value = ret.field_name

\* the number of select expressions a field_aggregations argument asks for
C19_Requested(items) ==
    LET n(i) == IF items[i].value.isNone \/ Len(items[i].value.items) = 0 THEN 1
                ELSE Len(items[i].value.items)
        sum[k \in 0..Len(items)] == IF k = 0 THEN 0 ELSE sum[k - 1] + n(k)
    IN sum[Len(items)]

\* C19: get_fields_as_series returns one series per requested select
\* expression: as many series as the select clause has expressions.
C19_OneSeriesPerExpression ==
    ret.op = "get_fields_as_series" /\ ret.exc = "none" =>
        /\ Len(ret.value) = C19_Requested(ret.field_aggregations.items)
        /\ Len(ret.value) = Len(StoreSelectList(ret.query))

=============================================================================
